---------------------------- MODULE Spec2Model ----------------------------
(***************************************************************************)
(* Model of tools/process_assets.py: the batch that turns source images    *)
(* into fixed-size pixel-art card PNGs and an optional contact sheet.      *)
(*                                                                         *)
(* A string is the sequence of the code points of its characters, so that  *)
(* str.strip() can be modelled by what it does on every character.  A file *)
(* of the processed directory is named by its stem, all of them being      *)
(* .png.  An image is a record of what decides its pixels: where it was    *)
(* decoded from, the crop box, the intermediate grid, the palette size and *)
(* its final size.                                                         *)
(***************************************************************************)
EXTENDS Integers, Sequences, FiniteSets, TLC

VARIABLES
    args,             \* argparse namespace: height, pixel_height, quantize, contact_sheet
    manifest,         \* assets/manifest/cards.json: [kind, cards]
    sourceDir,        \* assets/source: file name [stem, ext] -> file content
    processedDir,     \* assets/processed: [exists, files: stem -> content]
    before,           \* processedDir as it was when the current run started
    pc,               \* position of main(): start, loop, done, crashed (in the
                      \* card loop), sheet_crashed (in create_contact_sheet)
    cards,            \* main.cards
    idx,              \* 1-based position of the for loop in cards
    dims,             \* final_width, final_height, pixel_width, pixel_height
    processed_files,  \* main.processed_files
    failures,         \* main.failures
    log,              \* the lines printed, as <<kind, slug>>
    summary,          \* the "Done." line, <<processed, failed>>, or <<>>
    exit_code,        \* exit status of the process, -1 while it runs
    run,              \* 1 for the first invocation, 2 for the second
    first,            \* what the first invocation left, once the second started
    image,            \* center_crop_to_ratio alone: size of the image passed in
    box               \* center_crop_to_ratio alone: the crop box, or <<>>

vars == <<args, manifest, sourceDir, processedDir, before, pc, cards, idx, dims,
          processed_files, failures, log, summary, exit_code, run, first,
          image, box>>

---------------------------------------------------------------------------
(* Bounds of the model *)

MaxCards == 2
MaxBatch == 3
MaxTiles == 6
MaxHeight == 6
MaxDim == 9

---------------------------------------------------------------------------
(* Program constants *)

RatioNum == 3
RatioDen == 4
Columns == 4
Margin == 12
Extensions == <<".png", ".jpg", ".jpeg", ".webp">>
Background == <<20, 20, 26>>
\* "contact_sheet", the stem of contact_sheet.png.
SheetName == <<99, 111, 110, 116, 97, 99, 116, 95, 115, 104, 101, 101, 116>>

None == [none |-> TRUE]

Max(a, b) == IF a >= b THEN a ELSE b

---------------------------------------------------------------------------
(* str.strip() on a slug *)

\* The code points str.isspace() holds of: TAB, LF, VT, FF, CR, FS, GS, RS,
\* US, space, NEL, NBSP, U+1680, U+2000 to U+200A, U+2028, U+2029, U+202F,
\* U+205F and U+3000.
Whitespace ==
    {9, 10, 11, 12, 13, 28, 29, 30, 31, 32, 133, 160, 5760}
    \cup 8192..8202
    \cup {8232, 8233, 8239, 8287, 12288}

RECURSIVE LStrip(_)
LStrip(s) ==
    IF s = <<>> THEN s
    ELSE IF Head(s) \in Whitespace THEN LStrip(Tail(s)) ELSE s

RECURSIVE RStrip(_)
RStrip(s) ==
    IF s = <<>> THEN s
    ELSE IF s[Len(s)] \in Whitespace THEN RStrip(SubSeq(s, 1, Len(s) - 1)) ELSE s

Strip(s) == RStrip(LStrip(s))

\* JSON null, which is no string: a sequence no string is.  Any other value
\* that is not a string (a number, a boolean) is held as the text str()
\* gives it.
Null == <<-1>>

\* str(value); str(None) is "None".
Str(v) == IF v = Null THEN <<78, 111, 110, 101>> ELSE v

\* str(card.get("slug", "")).strip()
CardSlug(card) ==
    Strip(Str(IF "slug" \in DOMAIN card THEN card.slug ELSE <<>>))

---------------------------------------------------------------------------
(* load_cards *)

\* load_cards reading data["cards"]: a missing key raises KeyError.
load_cards_strict(m) ==
    IF m.kind = "list" THEN [ok |-> TRUE, error |-> "", cards |-> m.cards]
    ELSE [ok |-> FALSE, error |-> "Error", cards |-> <<>>]

load_cards(m) ==
    IF m.kind = "nofile" THEN [ok |-> FALSE, error |-> "FileNotFoundError", cards |-> <<>>]
    ELSE IF m.kind = "badjson" THEN [ok |-> FALSE, error |-> "JSONDecodeError", cards |-> <<>>]
    ELSE IF m.kind = "notobject" THEN [ok |-> FALSE, error |-> "AttributeError", cards |-> <<>>]
    ELSE IF m.kind = "nokey" THEN [ok |-> TRUE, error |-> "", cards |-> <<>>]
    ELSE IF m.kind = "notlist" THEN [ok |-> FALSE, error |-> "ValueError", cards |-> <<>>]
    ELSE [ok |-> TRUE, error |-> "", cards |-> m.cards]

---------------------------------------------------------------------------
(* find_source_image *)

RECURSIVE Probe(_, _, _)
Probe(dir, slug, i) ==
    IF i > Len(Extensions) THEN None
    ELSE IF [stem |-> slug, ext |-> Extensions[i]] \in DOMAIN dir
         THEN [stem |-> slug, ext |-> Extensions[i]]
         ELSE Probe(dir, slug, i + 1)

find_source_image(dir, slug) == Probe(dir, slug, 1)

---------------------------------------------------------------------------
\* center_crop_to_ratio cropping from the left and top edge.
center_crop_from_origin(width, height) ==
    IF width * RatioDen > height * RatioNum
    THEN <<0, 0, (height * RatioNum) \div RatioDen, height>>
    ELSE <<0, 0, width, (width * RatioDen) \div RatioNum>>

---------------------------------------------------------------------------
(* center_crop_to_ratio, target_ratio = RatioNum / RatioDen.               *)
(* int() of a positive float truncates: integer division.                  *)

center_crop_to_ratio(width, height) ==
    IF width * RatioDen > height * RatioNum
    THEN LET new_width == (height * RatioNum) \div RatioDen
             x0 == (width - new_width) \div 2
         IN  <<x0, 0, x0 + new_width, height>>
    ELSE LET new_height == (width * RatioDen) \div RatioNum
             y0 == (height - new_height) \div 2
         IN  <<0, y0, width, y0 + new_height>>

---------------------------------------------------------------------------
(* int(round(h * (3.0 / 4.0))): Python rounds a tie to the even integer.   *)

RoundRatio(h) ==
    LET q == (h * RatioNum) \div RatioDen
        r == (h * RatioNum) % RatioDen
    IN  IF 2 * r < RatioDen THEN q
        ELSE IF 2 * r > RatioDen THEN q + 1
        ELSE IF q % 2 = 0 THEN q ELSE q + 1

\* The width with int() in place of int(round()).
final_width_truncated(h) == Max(1, (h * RatioNum) \div RatioDen)

final_width_of(h) == Max(1, RoundRatio(h))

Derived(a) ==
    [final_height |-> a.height,
     final_width |-> final_width_of(a.height),
     pixel_height |-> a.pixel_height,
     pixel_width |-> final_width_of(a.pixel_height)]

NoDims == [final_height |-> 0, final_width |-> 0, pixel_height |-> 0, pixel_width |-> 0]

---------------------------------------------------------------------------
(* process_one *)

\* process_one refusing to overwrite a destination that exists.
ProcessOutcomeExclusive(src, dest, fs) ==
    IF src.kind = "corrupt" THEN "OSError"
    ELSE IF src.kind = "bomb" THEN "Error"
    ELSE IF dest \in DOMAIN fs THEN "OSError"
    ELSE "ok"

\* What process_one raises, or "ok".  A source that does not decode raises
\* OSError (truncated or unidentified data) or an exception that is not an
\* OSError (a decompression bomb); a destination that is a directory makes
\* image.save raise OSError.
ProcessOutcome(src, dest, fs) ==
    IF src.kind = "corrupt" THEN "OSError"
    ELSE IF src.kind = "bomb" THEN "Error"
    ELSE IF dest \in DOMAIN fs /\ fs[dest].kind = "directory" THEN "OSError"
    ELSE "ok"

\* The image process_one saves.
Render(source, src, d, quantize) ==
    [kind |-> "card",
     from |-> source,
     crop |-> center_crop_to_ratio(src.w, src.h),
     grid |-> <<d.pixel_width, d.pixel_height>>,
     colors |-> Max(2, quantize),
     w |-> d.final_width,
     h |-> d.final_height]

WriteFile(fs, name, content) ==
    [n \in DOMAIN fs \cup {name} |-> IF n = name THEN content ELSE fs[n]]

---------------------------------------------------------------------------
(* create_contact_sheet *)

\* Image.open refuses an image of more than twice Image.MAX_IMAGE_PIXELS
\* pixels with DecompressionBombError.
BombPixels == 2 * 89478485

\* What create_contact_sheet raises, or "ok".  With no output it returns at
\* once.  Image.open of a tile over the bomb limit raises an exception that
\* is not an OSError (all tiles have the same size, so the first one does);
\* sheet.save on a destination that is a directory raises OSError.
SheetOutcome(outputs, dest, tile_width, tile_height, fs) ==
    IF outputs = <<>> THEN "ok"
    ELSE IF tile_width * tile_height > BombPixels THEN "Error"
    ELSE IF dest \in DOMAIN fs /\ fs[dest].kind = "directory" THEN "OSError"
    ELSE "ok"

\* The row count without rounding up.
SheetRowsFloor(n) == n \div Columns

SheetRows(n) == (n + Columns - 1) \div Columns

TileX(index, tile_width) == Margin + (index % Columns) * (tile_width + Margin)

TileY(index, tile_height) == Margin + (index \div Columns) * (tile_height + Margin)

create_contact_sheet(outputs, tile_width, tile_height, fs) ==
    [kind |-> "sheet",
     w |-> Columns * tile_width + (Columns + 1) * Margin,
     h |-> SheetRows(Len(outputs)) * tile_height + (SheetRows(Len(outputs)) + 1) * Margin,
     color |-> Background,
     tiles |-> [i \in 1..Len(outputs) |->
                  [x |-> TileX(i - 1, tile_width),
                   y |-> TileY(i - 1, tile_height),
                   tile |-> fs[outputs[i]]]]]

---------------------------------------------------------------------------
(* Inputs *)

File(stem, ext) == [stem |-> stem, ext |-> ext]

Good(w, h) == [kind |-> "good", w |-> w, h |-> h]
Corrupt == [kind |-> "corrupt", w |-> 0, h |-> 0]
Bomb == [kind |-> "bomb", w |-> 0, h |-> 0]
Stale == [kind |-> "stale"]
Directory == [kind |-> "directory"]

EmptyDir == [f \in {} |-> Stale]

\* "a" and "b".
SlugA == <<97>>
SlugB == <<98>>

\* Manifest entries of the general runs: a plain slug, a padded slug
\* (TAB b LF), a slug of white space only (space, U+3000), an entry with no
\* slug key, the slug of the contact sheet and a null slug.
Entries ==
    {[slug |-> SlugA], [slug |-> <<9, 98, 10>>], [slug |-> <<32, 12288>>],
     [name |-> <<120>>], [slug |-> SheetName], [slug |-> Null]}

BatchEntries == {[slug |-> SlugA], [slug |-> SlugB], [slug |-> SheetName]}

Lists(E, n) == UNION {[1..k -> E] : k \in 0..n}

Manifests ==
    {[kind |-> k, cards |-> <<>>] : k \in {"nofile", "badjson", "notobject", "nokey", "notlist"}}
    \cup {[kind |-> "list", cards |-> c] : c \in Lists(Entries, MaxCards)}

SourcesA ==
    {EmptyDir,
     File(SlugA, ".png") :> Good(8, 4),
     File(SlugA, ".jpg") :> Corrupt @@ File(SlugA, ".webp") :> Good(8, 4),
     File(SlugA, ".jpeg") :> Bomb}

SourcesB ==
    {EmptyDir,
     File(SlugB, ".webp") :> Good(3, 8),
     File(SlugB, ".png") :> Corrupt}

\* The source of the card whose slug is that of the contact sheet.
SourcesSheet == File(SheetName, ".png") :> Good(5, 5)

ProcessedDirs ==
    {[exists |-> FALSE, files |-> EmptyDir],
     [exists |-> TRUE, files |-> EmptyDir],
     [exists |-> TRUE, files |-> SlugA :> Stale],
     [exists |-> TRUE, files |-> SlugA :> Directory],
     [exists |-> TRUE, files |-> SheetName :> Directory]}

NoRun == [taken |-> FALSE]

\* The variables of main() before it starts.
Fresh ==
    /\ pc = "start"
    /\ cards = <<>>
    /\ idx = 0
    /\ dims = NoDims
    /\ processed_files = <<>>
    /\ failures = 0
    /\ log = <<>>
    /\ summary = <<>>
    /\ exit_code = -1

Init ==
    /\ args \in [height : {0, 4, 16000}, pixel_height : {0, 2}, quantize : {0, 28},
                 contact_sheet : BOOLEAN]
    /\ manifest \in Manifests
    /\ sourceDir \in {a @@ b @@ SourcesSheet : a \in SourcesA, b \in SourcesB}
    /\ processedDir \in ProcessedDirs
    /\ before = processedDir
    /\ Fresh
    /\ run = 1
    /\ first = NoRun
    /\ image = None
    /\ box = <<>>

---------------------------------------------------------------------------
(* main *)

Mkdir(dir) == [dir EXCEPT !.exists = TRUE]

InLoop == pc = "loop" /\ idx <= Len(cards)

Inputs == <<args, manifest, sourceDir, before, run, first, image, box>>

\* The blank-slug branch without failures += 1.
SkipBlankUncounted ==
    /\ InLoop
    /\ CardSlug(cards[idx]) = <<>>
    /\ log' = Append(log, <<"malformed", <<>>>>)
    /\ idx' = idx + 1
    /\ UNCHANGED <<Inputs, processedDir, pc, cards, dims, processed_files, failures, summary,
                   exit_code>>

\* The missing-source branch leaving the loop instead of continuing.
SkipMissingBreak ==
    /\ InLoop
    /\ CardSlug(cards[idx]) # <<>>
    /\ find_source_image(sourceDir, CardSlug(cards[idx])) = None
    /\ log' = Append(log, <<"missing", CardSlug(cards[idx])>>)
    /\ failures' = failures + 1
    /\ idx' = Len(cards) + 1
    /\ UNCHANGED <<Inputs, processedDir, pc, cards, dims, processed_files, summary, exit_code>>

\* The exit status taken to be the failure count.
ExitStatusCount(f) == f

\* The argument check with --pixel-height left out.
ArgsValidHeightOnly(a) == ~(a.height <= 0)

ArgsValid(a) == ~(a.pixel_height <= 0 \/ a.height <= 0)

\* Line 188.
ExitStatus(f) == IF f # 0 THEN 1 ELSE 0

\* Lines 125-132: the manifest does not load.
LoadFail ==
    /\ pc = "start"
    /\ ~load_cards(manifest).ok
    /\ processedDir' = Mkdir(processedDir)
    /\ log' = Append(log, <<"manifest", <<>>>>)
    /\ exit_code' = 1
    /\ pc' = "done"
    /\ UNCHANGED <<Inputs, cards, idx, dims, processed_files, failures, summary>>

\* Lines 125-136: a height is not positive.
BadArgs ==
    /\ pc = "start"
    /\ load_cards(manifest).ok
    /\ ~ArgsValid(args)
    /\ processedDir' = Mkdir(processedDir)
    /\ cards' = load_cards(manifest).cards
    /\ log' = Append(log, <<"arguments", <<>>>>)
    /\ exit_code' = 1
    /\ pc' = "done"
    /\ UNCHANGED <<Inputs, idx, dims, processed_files, failures, summary>>

\* Lines 125-144: up to the card loop.
Begin ==
    /\ pc = "start"
    /\ load_cards(manifest).ok
    /\ ArgsValid(args)
    /\ processedDir' = Mkdir(processedDir)
    /\ cards' = load_cards(manifest).cards
    /\ dims' = Derived(args)
    /\ processed_files' = <<>>
    /\ failures' = 0
    /\ idx' = 1
    /\ pc' = "loop"
    /\ UNCHANGED <<Inputs, log, summary, exit_code>>

\* Lines 147-152.
SkipBlank ==
    /\ InLoop
    /\ CardSlug(cards[idx]) = <<>>
    /\ log' = Append(log, <<"malformed", <<>>>>)
    /\ failures' = failures + 1
    /\ idx' = idx + 1
    /\ UNCHANGED <<Inputs, processedDir, pc, cards, dims, processed_files, summary, exit_code>>

\* Lines 154-158.
SkipMissing ==
    /\ InLoop
    /\ CardSlug(cards[idx]) # <<>>
    /\ find_source_image(sourceDir, CardSlug(cards[idx])) = None
    /\ log' = Append(log, <<"missing", CardSlug(cards[idx])>>)
    /\ failures' = failures + 1
    /\ idx' = idx + 1
    /\ UNCHANGED <<Inputs, processedDir, pc, cards, dims, processed_files, summary, exit_code>>

\* The card at idx has a source, and process_one on it ends with outcome o.
Processing(o) ==
    /\ InLoop
    /\ CardSlug(cards[idx]) # <<>>
    /\ find_source_image(sourceDir, CardSlug(cards[idx])) # None
    /\ ProcessOutcome(sourceDir[find_source_image(sourceDir, CardSlug(cards[idx]))],
                      CardSlug(cards[idx]), processedDir.files) = o

\* Lines 160-172.
ProcessOk ==
    /\ Processing("ok")
    /\ LET slug == CardSlug(cards[idx])
           source == find_source_image(sourceDir, slug)
       IN  /\ processedDir' =
                [processedDir EXCEPT !.files =
                    WriteFile(@, slug, Render(source, sourceDir[source], dims, args.quantize))]
           /\ log' = Append(log, <<"processed", slug>>)
           /\ processed_files' = Append(processed_files, slug)
    /\ idx' = idx + 1
    /\ UNCHANGED <<Inputs, pc, cards, dims, failures, summary, exit_code>>

\* Lines 160-175: process_one raises OSError.
ProcessOSError ==
    /\ Processing("OSError")
    /\ log' = Append(log, <<"failed", CardSlug(cards[idx])>>)
    /\ failures' = failures + 1
    /\ idx' = idx + 1
    /\ UNCHANGED <<Inputs, processedDir, pc, cards, dims, processed_files, summary, exit_code>>

\* Lines 160-175, 192: process_one raises an exception that is not an
\* OSError; nothing catches it and the interpreter exits with status 1.
ProcessCrash ==
    /\ Processing("Error")
    /\ log' = Append(log, <<"traceback", CardSlug(cards[idx])>>)
    /\ exit_code' = 1
    /\ pc' = "crashed"
    /\ UNCHANGED <<Inputs, processedDir, cards, idx, dims, processed_files, failures, summary>>

\* create_contact_sheet, called at lines 179-184, ends with outcome o.
Sheeting(o) ==
    /\ pc = "loop"
    /\ idx > Len(cards)
    /\ args.contact_sheet
    /\ SheetOutcome(processed_files, SheetName, dims.final_width, dims.final_height,
                    processedDir.files) = o

\* Lines 177-184, 192: create_contact_sheet raises.  The call is in no try
\* block: whatever it raises leaves main, the sheet and the summary lines are
\* not printed and the interpreter exits with status 1.
SheetCrash ==
    /\ \E o \in {"Error", "OSError"} : Sheeting(o)
    /\ log' = Append(log, <<"traceback", SheetName>>)
    /\ exit_code' = 1
    /\ pc' = "sheet_crashed"
    /\ UNCHANGED <<Inputs, processedDir, cards, idx, dims, processed_files, failures, summary>>

\* Lines 177-188: the sheet is not asked for, or create_contact_sheet returns.
Finish ==
    /\ pc = "loop"
    /\ idx > Len(cards)
    /\ args.contact_sheet => Sheeting("ok")
    /\ IF args.contact_sheet
       THEN /\ processedDir' =
                 IF processed_files = <<>> THEN processedDir
                 ELSE [processedDir EXCEPT !.files =
                         WriteFile(@, SheetName,
                                   create_contact_sheet(processed_files, dims.final_width,
                                                        dims.final_height, processedDir.files))]
            /\ log' = Append(log, <<"sheet", SheetName>>)
       ELSE UNCHANGED <<processedDir, log>>
    /\ summary' = <<Len(processed_files), failures>>
    /\ exit_code' = ExitStatus(failures)
    /\ pc' = "done"
    /\ UNCHANGED <<Inputs, cards, idx, dims, processed_files, failures>>

Ended == pc \in {"done", "crashed", "sheet_crashed"}

\* The script is invoked a second time on what the first invocation left.
Rerun ==
    /\ Ended
    /\ run = 1
    /\ run' = 2
    /\ first' = [taken |-> TRUE, dir |-> processedDir, processed_files |-> processed_files,
                 failures |-> failures, summary |-> summary, exit_code |-> exit_code,
                 pc |-> pc]
    /\ before' = processedDir
    /\ pc' = "start"
    /\ cards' = <<>>
    /\ idx' = 0
    /\ dims' = NoDims
    /\ processed_files' = <<>>
    /\ failures' = 0
    /\ log' = <<>>
    /\ summary' = <<>>
    /\ exit_code' = -1
    /\ UNCHANGED <<args, manifest, sourceDir, processedDir, image, box>>

Next ==
    \/ LoadFail
    \/ BadArgs
    \/ Begin
    \/ SkipBlank
    \/ SkipMissing
    \/ ProcessOk
    \/ ProcessOSError
    \/ ProcessCrash
    \/ SheetCrash
    \/ Finish
    \/ Rerun

Spec == Init /\ [][Next]_vars

---------------------------------------------------------------------------
(* Batches of clean manifests under every height up to MaxHeight.  The     *)
(* processed directory starts absent and the tiles are small, so that       *)
(* create_contact_sheet always returns.                                     *)

BatchSourcesA == {EmptyDir, File(SlugA, ".png") :> Good(8, 4)}

BatchSourcesB == {File(SlugB, ".jpg") :> Good(3, 8), File(SlugB, ".jpg") :> Corrupt}

InitBatch ==
    /\ args \in [height : 1..MaxHeight, pixel_height : {2, 6}, quantize : {-3, 28},
                 contact_sheet : BOOLEAN]
    /\ manifest \in {[kind |-> "list", cards |-> c] : c \in Lists(BatchEntries, MaxBatch)}
    /\ sourceDir \in {a @@ b @@ SourcesSheet : a \in BatchSourcesA, b \in BatchSourcesB}
    /\ processedDir = [exists |-> FALSE, files |-> EmptyDir]
    /\ before = processedDir
    /\ Fresh
    /\ run = 1
    /\ first = NoRun
    /\ image = None
    /\ box = <<>>

NextBatch ==
    \/ Begin
    \/ SkipMissing
    \/ ProcessOk
    \/ ProcessOSError
    \/ Finish

SpecBatch == InitBatch /\ [][NextBatch]_vars

---------------------------------------------------------------------------
(* Runs that build the contact sheet, on manifests of up to MaxTiles cards. *)

InitSheet ==
    /\ args \in [height : {2, 4}, pixel_height : {2}, quantize : {28}, contact_sheet : {TRUE}]
    /\ manifest \in {[kind |-> "list", cards |-> c] :
                        c \in Lists(BatchEntries, MaxTiles)}
    /\ sourceDir \in {a @@ b @@ SourcesSheet : a \in BatchSourcesA, b \in BatchSourcesB}
    /\ processedDir = [exists |-> TRUE, files |-> EmptyDir]
    /\ before = processedDir
    /\ Fresh
    /\ run = 1
    /\ first = NoRun
    /\ image = None
    /\ box = <<>>

NextSheet ==
    \/ Begin
    \/ SkipMissing
    \/ ProcessOk
    \/ ProcessOSError
    \/ Finish

SpecSheet == InitSheet /\ [][NextSheet]_vars

---------------------------------------------------------------------------
(* center_crop_to_ratio on its own, over every size up to MaxDim.          *)

InitCrop ==
    /\ image \in [w : 1..MaxDim, h : 1..MaxDim]
    /\ box = <<>>
    /\ args = [height |-> 0, pixel_height |-> 0, quantize |-> 0, contact_sheet |-> FALSE]
    /\ manifest = [kind |-> "nofile", cards |-> <<>>]
    /\ sourceDir = EmptyDir
    /\ processedDir = [exists |-> FALSE, files |-> EmptyDir]
    /\ before = processedDir
    /\ pc = "crop"
    /\ cards = <<>>
    /\ idx = 0
    /\ dims = NoDims
    /\ processed_files = <<>>
    /\ failures = 0
    /\ log = <<>>
    /\ summary = <<>>
    /\ exit_code = -1
    /\ run = 1
    /\ first = NoRun

CenterCrop ==
    /\ pc = "crop"
    /\ box = <<>>
    /\ box' = center_crop_to_ratio(image.w, image.h)
    /\ UNCHANGED <<args, manifest, sourceDir, processedDir, before, pc, cards, idx, dims,
                   processed_files, failures, log, summary, exit_code, run, first, image>>

NextCrop == CenterCrop

SpecCrop == InitCrop /\ [][NextCrop]_vars

---------------------------------------------------------------------------
(* What the inputs decide, stated on the files themselves.                 *)

ExtRank(e) == CHOOSE i \in 1..4 : <<".png", ".jpg", ".jpeg", ".webp">>[i] = e

Candidates(slug) == {f \in DOMAIN sourceDir : f.stem = slug}

Preferred(slug) ==
    CHOOSE f \in Candidates(slug) : \A g \in Candidates(slug) : ExtRank(f.ext) <= ExtRank(g.ext)

SlugText(card) ==
    IF "slug" \notin DOMAIN card THEN <<>>
    ELSE IF card.slug = <<-1>> THEN <<78, 111, 110, 101>>
    ELSE card.slug

IsBlank(card) == \A i \in 1..Len(SlugText(card)) : SlugText(card)[i] \in Whitespace

\* The slug without the white space around it.
Trimmed(card) ==
    IF IsBlank(card) THEN <<>>
    ELSE LET t == SlugText(card)
             i == CHOOSE k \in 1..Len(t) :
                     t[k] \notin Whitespace /\ \A l \in 1..(k - 1) : t[l] \in Whitespace
             j == CHOOSE k \in 1..Len(t) :
                     t[k] \notin Whitespace /\ \A l \in (k + 1)..Len(t) : t[l] \in Whitespace
         IN  SubSeq(t, i, j)

HasNoSource(card) == ~IsBlank(card) /\ Candidates(Trimmed(card)) = {}

\* The card's source exists but does not decode, or its output cannot be written.
FailsInProcessing(card) ==
    /\ ~IsBlank(card)
    /\ Candidates(Trimmed(card)) # {}
    /\ \/ sourceDir[Preferred(Trimmed(card))].kind # "good"
       \/ /\ Trimmed(card) \in DOMAIN before.files
          /\ before.files[Trimmed(card)].kind = "directory"

Succeeds(card) == ~IsBlank(card) /\ ~HasNoSource(card) /\ ~FailsInProcessing(card)

RECURSIVE SuccessesUpTo(_, _)
SuccessesUpTo(cs, n) ==
    IF n = 0 THEN <<>>
    ELSE IF Succeeds(cs[n]) THEN Append(SuccessesUpTo(cs, n - 1), Trimmed(cs[n]))
         ELSE SuccessesUpTo(cs, n - 1)

RECURSIVE CountLines(_, _, _)
CountLines(lines, kinds, n) ==
    IF n = 0 THEN 0
    ELSE CountLines(lines, kinds, n - 1) + (IF lines[n][1] \in kinds THEN 1 ELSE 0)

\* w is round(h * 0.75) as Python rounds: the integer nearest to 3h/4, the
\* even one of the two when 3h/4 lies half way.
IsRoundedRatio(w, h) ==
    /\ 4 * w - 3 * h \in -2..2
    /\ 4 * w - 3 * h \in {-2, 2} => w % 2 = 0

ManifestLoaded == \A j \in 1..Len(log) : log[j][1] # "manifest"

HeightsPositive == args.height > 0 /\ args.pixel_height > 0

NothingProcessed ==
    /\ processed_files = <<>>
    /\ \A j \in 1..Len(log) : log[j][1] # "processed"
    /\ processedDir.files = before.files

---------------------------------------------------------------------------
(* C1 *)

\* C1 as stated: a run exits 0 exactly when the manifest was loaded and every
\* manifest entry was processed successfully, and exits 1 otherwise.
C1_ExitZeroIffAllProcessed ==
    Ended =>
        /\ exit_code \in {0, 1}
        /\ exit_code = 0 <=>
              (ManifestLoaded /\ \A i \in 1..Len(manifest.cards) : Succeeds(manifest.cards[i]))

\* The contact sheet is asked for, a card is there to put on it, and it
\* cannot be built: contact_sheet.png is a directory, or the tiles, of size
\* (round(height * 0.75), height), are larger than Pillow agrees to open.
SheetCannotBeBuilt ==
    /\ args.contact_sheet
    /\ \E i \in 1..Len(manifest.cards) : Succeeds(manifest.cards[i])
    /\ \/ /\ SheetName \in DOMAIN before.files
          /\ before.files[SheetName].kind = "directory"
       \/ \E w \in 1..args.height :
             IsRoundedRatio(w, args.height) /\ w * args.height > 178956970

\* C1, amended: a run exits 0 exactly when the manifest was loaded, both
\* heights are positive, every manifest entry was processed successfully
\* and the contact sheet, when asked for, could be built; it exits 1 in
\* every other case, whatever the number of cards that succeeded.
C1_ExitZeroIffValidAndAllProcessed ==
    Ended =>
        /\ exit_code \in {0, 1}
        /\ exit_code = 0 <=>
              /\ ManifestLoaded
              /\ HeightsPositive
              /\ \A i \in 1..Len(manifest.cards) : Succeeds(manifest.cards[i])
              /\ ~SheetCannotBeBuilt

\* A run in which one card was processed and another failed has ended.
C1_Witness ==
    /\ pc = "done"
    /\ Len(processed_files) >= 1
    /\ failures >= 1
    /\ exit_code = 1

---------------------------------------------------------------------------
(* C3 *)

\* C3 as stated: when the key cards is missing or its value is not a list,
\* the run fails at once: no card processed, no image written, exit code 1.
C3_MissingOrNotListFails ==
    (Ended /\ manifest.kind \in {"nokey", "notlist"}) =>
        /\ exit_code = 1
        /\ NothingProcessed

\* C3, amended: when the value of cards is not a list the run fails at once
\* (the loop is never entered, no card processed, no image written, exit
\* code 1); when the key is missing the manifest is read as an empty list:
\* no card is processed and no image is written, and the exit code is 0
\* unless a height is not positive.
C3_NotListFails ==
    /\ (Ended /\ manifest.kind = "notlist") =>
          /\ exit_code = 1
          /\ idx = 0
          /\ ~ManifestLoaded
          /\ NothingProcessed
    /\ (Ended /\ manifest.kind = "nokey") =>
          /\ NothingProcessed
          /\ exit_code = 0 <=> HeightsPositive

\* A run on a manifest whose cards value is not a list has ended, with
\* arguments that would have been accepted.
C3_Witness ==
    /\ pc = "done"
    /\ manifest.kind = "notlist"
    /\ HeightsPositive
    /\ args.contact_sheet

---------------------------------------------------------------------------
(* C4 *)

\* C4 as stated: when a height is not positive the run exits 1 before the
\* card loop, processes no card, writes no image, and leaves nothing behind
\* on the file system.
C4_BadHeightsLeaveNothing ==
    (Ended /\ ~HeightsPositive) =>
        /\ exit_code = 1
        /\ idx = 0
        /\ NothingProcessed
        /\ processedDir = before

\* C4, amended: when a height is not positive the run exits 1 before the
\* card loop, processes no card and writes no file; the one thing it may
\* leave behind is the processed directory, created before the arguments
\* are checked.
C4_BadHeightsWriteNoFile ==
    (Ended /\ ~HeightsPositive) =>
        /\ exit_code = 1
        /\ idx = 0
        /\ NothingProcessed
        /\ processedDir.exists

\* A run with a bad height has ended on a manifest whose first card would
\* have been processed.
C4_Witness ==
    /\ pc = "done"
    /\ ~HeightsPositive
    /\ ManifestLoaded
    /\ Len(manifest.cards) >= 1
    /\ Succeeds(manifest.cards[1])

---------------------------------------------------------------------------
(* C5 *)

\* C5: a card whose source exists but cannot be decoded, or whose output
\* cannot be written, is counted and reported as a failure of that card; the
\* error does not leave the loop and the later cards are still visited.
C5_ProcessingFailureStaysInLoop ==
    /\ pc # "crashed"
    /\ \A i \in 1..Len(cards) :
          (i < idx /\ FailsInProcessing(cards[i])) =>
              \E j \in 1..Len(log) : log[j] = <<"failed", Trimmed(cards[i])>>
    /\ pc = "done" /\ HeightsPositive /\ ManifestLoaded => idx = Len(cards) + 1

---------------------------------------------------------------------------
(* C9 *)

\* C9: a second run on the same manifest, sources and arguments leaves the
\* processed directory as the first run left it, and reports the same
\* counts and the same exit code.
C9_SecondRunChangesNothing ==
    (run = 2 /\ Ended) =>
        /\ processedDir = first.dir
        /\ Len(processed_files) = Len(first.processed_files)
        /\ failures = first.failures
        /\ summary = first.summary
        /\ exit_code = first.exit_code

\* The second run has ended after overwriting a card and the contact sheet.
C9_Witness ==
    /\ run = 2
    /\ pc = "done"
    /\ Len(processed_files) >= 1
    /\ failures >= 1
    /\ args.contact_sheet
    /\ SheetName \in DOMAIN first.dir.files
    /\ processed_files[1] = SheetName

---------------------------------------------------------------------------
(* C10 *)

\* C10: after each iteration of the card loop the processed files and the
\* failures add up to the entries visited; the summary line adds up to the
\* entries of the manifest; processed_files holds the destinations of the
\* successful cards in manifest order.
C10_EveryEntryCountedOnce ==
    /\ pc = "loop" =>
          /\ Len(processed_files) + failures = idx - 1
          /\ processed_files = SuccessesUpTo(manifest.cards, idx - 1)
    /\ summary # <<>> =>
          /\ summary[1] + summary[2] = Len(manifest.cards)
          /\ summary[1] = Len(processed_files)
          /\ summary[2] = CountLines(log, {"malformed", "missing", "failed"}, Len(log))
          /\ processed_files = SuccessesUpTo(manifest.cards, Len(manifest.cards))

\* The summary line of a run that met a blank slug, a missing source and a
\* successful card is printed.
C10_Witness ==
    /\ summary # <<>>
    /\ summary[1] >= 1
    /\ summary[2] >= 1
    /\ Len(manifest.cards) >= 2

---------------------------------------------------------------------------
(* C2 *)

Slugs(cs) == {Trimmed(cs[i]) : i \in 1..Len(cs)}

\* The manifest has unique non-empty slugs, its entry m has no source under
\* any extension, and every other entry processes cleanly.
OnlyMissing(m) ==
    /\ m \in 1..Len(manifest.cards)
    /\ \A i \in 1..Len(manifest.cards) : ~IsBlank(manifest.cards[i])
    /\ Cardinality(Slugs(manifest.cards)) = Len(manifest.cards)
    /\ HasNoSource(manifest.cards[m])
    /\ \A i \in 1..Len(manifest.cards) : i # m => Succeeds(manifest.cards[i])

CardFiles == {n \in DOMAIN processedDir.files : processedDir.files[n].kind = "card"}

\* The card file the contact sheet has replaced: a card whose slug is
\* contact_sheet is written to the path the sheet is then saved at.
UnderSheet ==
    IF pc = "done" /\ args.contact_sheet /\ processed_files # <<>> THEN {SheetName} ELSE {}

\* C2: with exactly one slug of N missing its source, the loop goes on past
\* it; the loop ends with the N-1 other cards processed and their N-1
\* outputs written, and the run with one failure, reported for the missing
\* slug, and exit code 1.
C2_MissingSourceSkipsOneCard ==
    \A m \in 1..Len(manifest.cards) :
        OnlyMissing(m) =>
            /\ pc = "loop" /\ idx > m =>
                  /\ failures = 1
                  /\ Len(processed_files) = idx - 2
                  /\ \A j \in 1..Len(processed_files) : processed_files[j] \in CardFiles
            /\ pc = "loop" /\ idx > Len(manifest.cards) =>
                  /\ CardFiles = Slugs(manifest.cards) \ {Trimmed(manifest.cards[m])}
                  /\ Cardinality(CardFiles) = Len(manifest.cards) - 1
            /\ pc \notin {"start", "loop"} =>
                  /\ pc = "done"
                  /\ Len(processed_files) = Len(manifest.cards) - 1
                  /\ CardFiles =
                        (Slugs(manifest.cards) \ {Trimmed(manifest.cards[m])}) \ UnderSheet
                  /\ \A i \in 1..Len(manifest.cards) :
                        i > m => \E j \in 1..Len(processed_files) :
                                    processed_files[j] = Trimmed(manifest.cards[i])
                  /\ failures = 1
                  /\ CountLines(log, {"malformed", "missing", "failed", "traceback"}, Len(log)) = 1
                  /\ \E j \in 1..Len(log) : log[j] = <<"missing", Trimmed(manifest.cards[m])>>
                  /\ summary = <<Len(manifest.cards) - 1, 1>>
                  /\ exit_code = 1

\* A run on three cards has ended, the first of which had no source and
\* the last of which has the slug of the contact sheet, which was built.
C2_Witness ==
    /\ pc = "done"
    /\ Len(manifest.cards) = 3
    /\ OnlyMissing(1)
    /\ args.contact_sheet
    /\ Trimmed(manifest.cards[3]) = SheetName

---------------------------------------------------------------------------
(* C7 *)

\* C7: every card image written has size (round(height * 0.75), height) with
\* width at least 1, was made on a grid of (round(pixel_height * 0.75),
\* pixel_height) with width at least 1, whatever the size of its source.
C7_OutputDimensions ==
    \A n \in CardFiles :
        LET out == processedDir.files[n]
        IN  /\ out.h = args.height
            /\ out.w >= 1
            /\ IsRoundedRatio(out.w, args.height)
            /\ out.grid[2] = args.pixel_height
            /\ out.grid[1] >= 1
            /\ IsRoundedRatio(out.grid[1], args.pixel_height)
            /\ \A o \in CardFiles :
                  processedDir.files[o].w = out.w /\ processedDir.files[o].h = out.h

\* Cards cropped from sources of different shapes were written at height 6,
\* where height * 0.75 lies half way between two integers.
C7_Witness ==
    /\ pc = "done"
    /\ args.height = 6
    /\ args.quantize < 2
    /\ \E n, o \in CardFiles :
          processedDir.files[n].crop # processedDir.files[o].crop

---------------------------------------------------------------------------
(* C8 *)

CeilDiv4(n) == CHOOSE r \in 0..n : 4 * r >= n /\ 4 * (r - 1) < n

Overlap(s, t) ==
    /\ s.x < t.x + t.tile.w
    /\ t.x < s.x + s.tile.w
    /\ s.y < t.y + t.tile.h
    /\ t.y < s.y + s.tile.h

\* C8: the sheet of N >= 1 processed cards is 4*tile_w + 60 wide and
\* ceil(N/4)*tile_h + (ceil(N/4)+1)*12 tall; the i-th successful card in
\* manifest order (from 0) is pasted unresized at (12 + (i mod 4)*(tile_w+12),
\* 12 + (i div 4)*(tile_h+12)); failed cards take no slot, no two tiles
\* overlap and every tile lies inside the canvas.
C8_ContactSheetLayout ==
    (pc = "done" /\ args.contact_sheet /\ Len(processed_files) >= 1) =>
        /\ SheetName \in DOMAIN processedDir.files
        /\ LET sheet == processedDir.files[SheetName]
               done == SuccessesUpTo(manifest.cards, Len(manifest.cards))
               N == Len(done)
               tw == dims.final_width
               th == dims.final_height
           IN  /\ sheet.w = 4 * tw + 5 * 12
               /\ sheet.h = CeilDiv4(N) * th + (CeilDiv4(N) + 1) * 12
               /\ Len(sheet.tiles) = N
               /\ \A k \in 1..N :
                     /\ sheet.tiles[k].tile.kind = "card"
                     /\ sheet.tiles[k].tile.from = Preferred(done[k])
                     /\ done[k] # SheetName => sheet.tiles[k].tile = processedDir.files[done[k]]
                     /\ sheet.tiles[k].tile.w = tw
                     /\ sheet.tiles[k].tile.h = th
                     /\ sheet.tiles[k].x = 12 + ((k - 1) % 4) * (tw + 12)
                     /\ sheet.tiles[k].y = 12 + ((k - 1) \div 4) * (th + 12)
                     /\ sheet.tiles[k].x >= 0
                     /\ sheet.tiles[k].y >= 0
                     /\ sheet.tiles[k].x + tw <= sheet.w
                     /\ sheet.tiles[k].y + th <= sheet.h
               /\ \A k, l \in 1..N : k # l => ~Overlap(sheet.tiles[k], sheet.tiles[l])

\* A sheet of two rows was written by a run in which a card failed.
C8_Witness ==
    /\ pc = "done"
    /\ SheetName \in DOMAIN processedDir.files
    /\ Len(processed_files) >= 5
    /\ failures >= 1
    /\ ~Succeeds(manifest.cards[2])
    /\ Trimmed(manifest.cards[1]) = SheetName

---------------------------------------------------------------------------
(* C6 *)

Abs(n) == IF n < 0 THEN -n ELSE n

\* The crop keeps the full height, or the full width, of the image and its
\* two margins differ by at most one pixel.
Centered ==
    IF 4 * image.w > 3 * image.h
    THEN /\ box[2] = 0
         /\ box[4] = image.h
         /\ box[1] >= 0
         /\ box[3] <= image.w
         /\ Abs(box[1] - (image.w - box[3])) <= 1
    ELSE /\ box[1] = 0
         /\ box[3] = image.w
         /\ box[2] >= 0
         /\ box[4] <= image.h
         /\ Abs(box[2] - (image.h - box[4])) <= 1

\* C6 as stated: a source wider than 3/4 is cropped to full height and width
\* round(H * 0.75), any other source to full width and height round(W * 4/3),
\* the two margins differing by at most one pixel.
C6_CropIsRounded ==
    box # <<>> =>
        /\ Centered
        /\ IF 4 * image.w > 3 * image.h
           THEN Abs(4 * (box[3] - box[1]) - 3 * image.h) <= 2
           ELSE Abs(3 * (box[4] - box[2]) - 4 * image.w) <= 1

\* C6, amended: a source wider than 3/4 is cropped to full height and width
\* floor(H * 3/4), any other source to full width and height floor(W * 4/3),
\* the two margins differing by at most one pixel.
C6_CropIsTruncated ==
    box # <<>> =>
        /\ Centered
        /\ IF 4 * image.w > 3 * image.h
           THEN LET cw == box[3] - box[1]
                IN  4 * cw <= 3 * image.h /\ 3 * image.h < 4 * (cw + 1)
           ELSE LET ch == box[4] - box[2]
                IN  3 * ch <= 4 * image.w /\ 4 * image.w < 3 * (ch + 1)

\* A wide image whose height times 3/4 is not an integer was cropped with
\* unequal margins.
C6_Witness ==
    /\ box # <<>>
    /\ 4 * image.w > 3 * image.h
    /\ (3 * image.h) % 4 = 2
    /\ box[1] # image.w - box[3]

===========================================================================
